---- MODULE Spec2Model ----
(***************************************************************************)
(* Double-elimination bracket generation for a 32-team tournament          *)
(* (DoubleEliminationMatchStrategy).  The strategy is a pure function of   *)
(* (tournamentId, groupId); it is modelled by operators that follow the    *)
(* C++ statement by statement, and a state machine that applies it to      *)
(* inputs drawn from small sets and records every call.                    *)
(* MatchDelegate, which reacts to a roster change by generating and        *)
(* persisting the bracket, is modelled as workers that handle one           *)
(* notification each, interleaved at the calls of its collaborators.        *)
(*                                                                         *)
(* C++ vectors are 0-based, TLA+ sequences 1-based: element i of a vector  *)
(* v is v[i + 1], see At.  An index outside a vector is undefined          *)
(* behaviour in C++; its outcomes are drawn from OobOutcomes.              *)
(***************************************************************************)
EXTENDS Integers, Sequences, FiniteSets, TLC

VARIABLES
    calls,      \* the calls of GenerateMatches a direct caller made, oldest first
    store,      \* the match store: rows persisted per (tournamentId, groupId)
    workers     \* per worker, the handling of its notification by MatchDelegate

vars == <<calls, store, workers>>

-----------------------------------------------------------------------------
(* Bounds and input sets *)

MaxCalls == 2

\* Workers that handle notifications concurrently, one notification each
MaxWorkers == 2

\* Rows a group's bracket has in the match store when it was persisted before
\* the run
PreExistingRows == 63

TournamentIds == {"T1", "T2"}

GroupIds == {"G1", "G2"}

\* What a read of an id beyond the end of a vector can yield when the
\* process survives it.
GarbageIds == {"", "#garbage#"}

\* Outcomes of an out-of-bounds vector access: the process aborts, or it
\* goes on: a read yields some garbage id, a write lands outside every
\* element of the vector.
OobOutcomes ==
    {[abort |-> TRUE, id |-> ""]} \cup {[abort |-> FALSE, id |-> g] : g \in GarbageIds}

-----------------------------------------------------------------------------
(* domain::Match and vector helpers *)

WINNERS == "WINNERS"

LOSERS == "LOSERS"

PENDING == "PENDING"

\* A default-constructed domain::Match: empty strings, unset optional ids,
\* flags false.
DefaultMatch ==
    [id |-> "", tournamentId |-> "", groupId |-> "", bracket |-> WINNERS,
     roundNumber |-> 0, matchNumberInRound |-> 0, status |-> PENDING,
     nextMatchWinnerId |-> "", nextMatchLoserId |-> "",
     isGrandFinal |-> FALSE, isBracketReset |-> FALSE]

\* v[i] of a std::vector, i within bounds
At(v, i) == v[i + 1]

InBounds(v, i) == i >= 0 /\ i < Len(v)

\* v[i].Id() as the build evaluates it: the element's id, or what the
\* out-of-bounds read yields
ReadId(v, i, oob) == IF InBounds(v, i) THEN At(v, i).id ELSE oob.id

\* v[i].NextMatchLoserId() = x
SetNextMatchLoserId(v, i, x) ==
    IF InBounds(v, i) THEN [v EXCEPT ![i + 1].nextMatchLoserId = x] ELSE v

\* v[i].NextMatchWinnerId() = x
SetNextMatchWinnerId(v, i, x) ==
    IF InBounds(v, i) THEN [v EXCEPT ![i + 1].nextMatchWinnerId = x] ELSE v

Digits == <<"0", "1", "2", "3", "4", "5", "6", "7", "8", "9">>

RECURSIVE to_string(_)
\* std::to_string(int)
to_string(n) ==
    IF n < 0 THEN "-" \o to_string(0 - n)
    ELSE IF n < 10 THEN Digits[n + 1]
    ELSE to_string(n \div 10) \o Digits[(n % 10) + 1]

RECURSIVE Flatten(_)
\* the order in which nested loops push_back: rounds in order, matches in order
Flatten(rounds) ==
    IF rounds = <<>> THEN <<>> ELSE Head(rounds) \o Flatten(Tail(rounds))

-----------------------------------------------------------------------------
(* DoubleEliminationMatchStrategy *)

\* GenerateMatchId with the bracket prefix left out of the choice: every id
\* gets "W"
GenerateMatchId_SamePrefix(tournamentId, bracket, round, matchNumber) ==
    tournamentId \o "_" \o "W" \o "R" \o to_string(round) \o "M" \o to_string(matchNumber)

\* GenerateMatchId with the round and the match number in each other's place
GenerateMatchId_NumberFirst(tournamentId, bracket, round, matchNumber) ==
    LET bracketPrefix == IF bracket = WINNERS THEN "W" ELSE "L"
    IN  tournamentId \o "_" \o bracketPrefix \o "R" \o to_string(matchNumber)
            \o "M" \o to_string(round)

GenerateMatchId(tournamentId, bracket, round, matchNumber) ==
    LET bracketPrefix == IF bracket = WINNERS THEN "W" ELSE "L"
    IN  tournamentId \o "_" \o bracketPrefix \o "R" \o to_string(round)
            \o "M" \o to_string(matchNumber)

WinnersRoundSizes == <<16, 8, 4, 2, 1>>

LosersRoundSizes == <<8, 8, 4, 4, 2, 2, 1, 1, 1>>

\* WinnersMatch without the halving of matchNum
WinnersMatch_NoHalving(tournamentId, groupId, roundIdx, matchNum) ==
    LET roundNumber == roundIdx + 1
        match == [DefaultMatch EXCEPT
                    !.id = GenerateMatchId(tournamentId, WINNERS, roundNumber, matchNum),
                    !.tournamentId = tournamentId,
                    !.groupId = groupId,
                    !.bracket = WINNERS,
                    !.roundNumber = roundNumber,
                    !.matchNumberInRound = matchNum,
                    !.status = PENDING]
    IN  IF roundIdx < Len(WinnersRoundSizes) - 1
        THEN [match EXCEPT !.nextMatchWinnerId =
                GenerateMatchId(tournamentId, WINNERS, roundNumber + 1, matchNum)]
        ELSE match

\* The match CreateWinnersBracket pushes for (roundIdx, matchNum): the body
\* of its inner loop, roundIdx 0-based
WinnersMatch(tournamentId, groupId, roundIdx, matchNum) ==
    LET roundNumber == roundIdx + 1
        match == [DefaultMatch EXCEPT
                    !.id = GenerateMatchId(tournamentId, WINNERS, roundNumber, matchNum),
                    !.tournamentId = tournamentId,
                    !.groupId = groupId,
                    !.bracket = WINNERS,
                    !.roundNumber = roundNumber,
                    !.matchNumberInRound = matchNum,
                    !.status = PENDING]
    IN  IF roundIdx < Len(WinnersRoundSizes) - 1
        THEN LET nextMatchNum == matchNum \div 2
             IN  [match EXCEPT !.nextMatchWinnerId =
                    GenerateMatchId(tournamentId, WINNERS, roundNumber + 1, nextMatchNum)]
        ELSE match

\* CreateWinnersBracket with the inner loop from 1 to matchesInRound
CreateWinnersBracket_OneBased(tournamentId, groupId) ==
    Flatten([r \in 1..Len(WinnersRoundSizes) |->
        [m \in 1..WinnersRoundSizes[r] |->
            WinnersMatch(tournamentId, groupId, r - 1, m)]])

CreateWinnersBracket(tournamentId, groupId) ==
    Flatten([r \in 1..Len(WinnersRoundSizes) |->
        [m \in 1..WinnersRoundSizes[r] |->
            WinnersMatch(tournamentId, groupId, r - 1, m - 1)]])

\* LosersMatch without the halving of matchNum: the winner goes to the match
\* of the same number in the next round
LosersMatch_NoHalving(tournamentId, groupId, roundIdx, matchNum) ==
    LET roundNumber == roundIdx + 1
        match == [DefaultMatch EXCEPT
                    !.id = GenerateMatchId(tournamentId, LOSERS, roundNumber, matchNum),
                    !.tournamentId = tournamentId,
                    !.groupId = groupId,
                    !.bracket = LOSERS,
                    !.roundNumber = roundNumber,
                    !.matchNumberInRound = matchNum,
                    !.status = PENDING]
    IN  IF roundIdx < Len(LosersRoundSizes) - 1
        THEN [match EXCEPT !.nextMatchWinnerId =
                GenerateMatchId(tournamentId, LOSERS, roundNumber + 1, matchNum)]
        ELSE match

\* The match CreateLosersBracket pushes for (roundIdx, matchNum): the body of
\* its inner loop, roundIdx 0-based
LosersMatch(tournamentId, groupId, roundIdx, matchNum) ==
    LET roundNumber == roundIdx + 1
        match == [DefaultMatch EXCEPT
                    !.id = GenerateMatchId(tournamentId, LOSERS, roundNumber, matchNum),
                    !.tournamentId = tournamentId,
                    !.groupId = groupId,
                    !.bracket = LOSERS,
                    !.roundNumber = roundNumber,
                    !.matchNumberInRound = matchNum,
                    !.status = PENDING]
    IN  IF roundIdx < Len(LosersRoundSizes) - 1
        THEN LET nextMatchNum == matchNum \div 2
             IN  [match EXCEPT !.nextMatchWinnerId =
                    GenerateMatchId(tournamentId, LOSERS, roundNumber + 1, nextMatchNum)]
        ELSE match

CreateLosersBracket(tournamentId, groupId) ==
    Flatten([r \in 1..Len(LosersRoundSizes) |->
        [m \in 1..LosersRoundSizes[r] |->
            LosersMatch(tournamentId, groupId, r - 1, m - 1)]])

\* LinkAssignments with the first loop 1-to-1 (loserMatchNum = i, not i / 2)
LinkAssignments_Round1OneToOne ==
    [k \in 1..16 |-> LET i == k - 1 IN [w |-> i, l |-> i]]
        \o [k \in 1..8 |-> LET i == k - 1 IN [w |-> 16 + i, l |-> 8 + i]]
        \o [k \in 1..4 |-> LET i == k - 1 IN [w |-> 24 + i, l |-> 16 + i]]
        \o [k \in 1..2 |-> LET i == k - 1 IN [w |-> 28 + i, l |-> 24 + i]]
        \o <<[w |-> 30, l |-> 32]>>

\* The assignments of LinkBracketsLoserPaths in program order: each sets
\* winnersMatches[w].NextMatchLoserId() to losersMatches[l].Id().  The k-th
\* pass of a loop `for (int i = 0; i < n; ++i)` has i = k - 1.
LinkAssignments ==
    [k \in 1..16 |-> LET i == k - 1 IN [w |-> i, l |-> i \div 2]]
        \o [k \in 1..8 |-> LET i == k - 1 IN [w |-> 16 + i, l |-> 8 + i]]
        \o [k \in 1..4 |-> LET i == k - 1 IN [w |-> 24 + i, l |-> 16 + i]]
        \o [k \in 1..2 |-> LET i == k - 1 IN [w |-> 28 + i, l |-> 24 + i]]
        \o <<[w |-> 30, l |-> 32]>>

RECURSIVE LinkFrom(_, _, _, _)
\* the assignments of LinkBracketsLoserPaths from the k-th on
LinkFrom(winnersMatches, losersMatches, k, oob) ==
    IF k > Len(LinkAssignments) THEN winnersMatches
    ELSE LinkFrom(SetNextMatchLoserId(winnersMatches, LinkAssignments[k].w,
                        ReadId(losersMatches, LinkAssignments[k].l, oob)),
                  losersMatches, k + 1, oob)

\* winnersMatches after LinkBracketsLoserPaths(winnersMatches, losersMatches)
LinkBracketsLoserPaths(winnersMatches, losersMatches, oob) ==
    LinkFrom(winnersMatches, losersMatches, 1, oob)

\* Whether LinkBracketsLoserPaths indexes a vector outside its bounds
LinkOutOfBounds(winnersMatches, losersMatches) ==
    \E k \in 1..Len(LinkAssignments) :
        \/ ~InBounds(winnersMatches, LinkAssignments[k].w)
        \/ ~InBounds(losersMatches, LinkAssignments[k].l)

\* CreateGrandFinal with the flags of the two matches swapped and the link
\* from the first to the second left out
CreateGrandFinal_SwappedFlags(tournamentId, groupId) ==
    LET grandFinal1 == [DefaultMatch EXCEPT
                    !.id = GenerateMatchId(tournamentId, WINNERS, 6, 0),
                    !.tournamentId = tournamentId,
                    !.groupId = groupId,
                    !.bracket = WINNERS,
                    !.roundNumber = 6,
                    !.matchNumberInRound = 0,
                    !.status = PENDING,
                    !.isGrandFinal = TRUE,
                    !.isBracketReset = TRUE]
        grandFinal2 == [DefaultMatch EXCEPT
                    !.id = GenerateMatchId(tournamentId, WINNERS, 7, 0),
                    !.tournamentId = tournamentId,
                    !.groupId = groupId,
                    !.bracket = WINNERS,
                    !.roundNumber = 7,
                    !.matchNumberInRound = 0,
                    !.status = PENDING,
                    !.isGrandFinal = TRUE,
                    !.isBracketReset = FALSE]
    IN  <<grandFinal1, grandFinal2>>

CreateGrandFinal(tournamentId, groupId) ==
    LET grandFinal1 == [DefaultMatch EXCEPT
                    !.id = GenerateMatchId(tournamentId, WINNERS, 6, 0),
                    !.tournamentId = tournamentId,
                    !.groupId = groupId,
                    !.bracket = WINNERS,
                    !.roundNumber = 6,
                    !.matchNumberInRound = 0,
                    !.status = PENDING,
                    !.isGrandFinal = TRUE,
                    !.isBracketReset = FALSE]
        grandFinal2 == [DefaultMatch EXCEPT
                    !.id = GenerateMatchId(tournamentId, WINNERS, 7, 0),
                    !.tournamentId = tournamentId,
                    !.groupId = groupId,
                    !.bracket = WINNERS,
                    !.roundNumber = 7,
                    !.matchNumberInRound = 0,
                    !.status = PENDING,
                    !.isGrandFinal = TRUE,
                    !.isBracketReset = TRUE]
    IN  <<[grandFinal1 EXCEPT !.nextMatchWinnerId = grandFinal2.id], grandFinal2>>

\* Index of the winners final in winnersMatches, as GenerateMatches has it
WinnersFinalIndex == 30

\* Index of the losers final in losersMatches, as GenerateMatches and
\* LinkBracketsLoserPaths have it
LosersFinalIndex == 32

\* GenerateMatches with the losers bracket inserted before the winners bracket
GenerateMatches_LosersFirst(tournamentId, groupId, oob) ==
    LET winners0 == CreateWinnersBracket(tournamentId, groupId)
        losers0 == CreateLosersBracket(tournamentId, groupId)
        winners1 == LinkBracketsLoserPaths(winners0, losers0, oob)
        grandFinalMatches == CreateGrandFinal(tournamentId, groupId)
        winnersMatches == SetNextMatchWinnerId(winners1, WinnersFinalIndex,
                                ReadId(grandFinalMatches, 0, oob))
        losersMatches == SetNextMatchWinnerId(losers0, LosersFinalIndex,
                                ReadId(grandFinalMatches, 0, oob))
        outOfBounds == \/ LinkOutOfBounds(winners0, losers0)
                       \/ ~InBounds(winners1, WinnersFinalIndex)
                       \/ ~InBounds(losers0, LosersFinalIndex)
                       \/ ~InBounds(grandFinalMatches, 0)
    IN  IF outOfBounds /\ oob.abort
        THEN [returned |-> FALSE, matches |-> <<>>]
        ELSE [returned |-> TRUE,
              matches |-> losersMatches \o winnersMatches \o grandFinalMatches]

\* The outcome of one call: returned = FALSE when the process aborted on an
\* out-of-bounds access, else matches = allMatches
GenerateMatches(tournamentId, groupId, oob) ==
    LET winners0 == CreateWinnersBracket(tournamentId, groupId)
        losers0 == CreateLosersBracket(tournamentId, groupId)
        winners1 == LinkBracketsLoserPaths(winners0, losers0, oob)
        grandFinalMatches == CreateGrandFinal(tournamentId, groupId)
        winnersMatches == SetNextMatchWinnerId(winners1, WinnersFinalIndex,
                                ReadId(grandFinalMatches, 0, oob))
        losersMatches == SetNextMatchWinnerId(losers0, LosersFinalIndex,
                                ReadId(grandFinalMatches, 0, oob))
        outOfBounds == \/ LinkOutOfBounds(winners0, losers0)
                       \/ ~InBounds(winners1, WinnersFinalIndex)
                       \/ ~InBounds(losers0, LosersFinalIndex)
                       \/ ~InBounds(grandFinalMatches, 0)
    IN  IF outOfBounds /\ oob.abort
        THEN [returned |-> FALSE, matches |-> <<>>]
        ELSE [returned |-> TRUE,
              matches |-> winnersMatches \o losersMatches \o grandFinalMatches]

-----------------------------------------------------------------------------
(* MatchDelegate and its collaborators *)

Workers == 1..MaxWorkers

\* The groups notifications are about
EventTournamentIds == {"T1"}

Keys == EventTournamentIds \X GroupIds

\* if (group->Teams().size() == 32)
RequiredTeams == 32

\* if (matches.size() != 63), if (createdIds.size() != 63)
ExpectedMatches == 63

\* Team counts of a group that is found
TeamCounts == {RequiredTeams - 1, RequiredTeams, RequiredTeams + 1}

\* groupRepository->FindByTournamentIdAndGroupId: throws, returns nullptr, or
\* returns a group with some number of teams
LookupOutcomes ==
    {[throws |-> TRUE, found |-> FALSE, teams |-> 0],
     [throws |-> FALSE, found |-> FALSE, teams |-> 0]}
        \cup {[throws |-> FALSE, found |-> TRUE, teams |-> n] : n \in TeamCounts}

\* matchStrategy->GenerateMatches: throws (std::bad_alloc), or runs into its
\* out-of-bounds accesses with one of their outcomes
GenOutcomes ==
    {[throws |-> TRUE, oob |-> [abort |-> FALSE, id |-> ""]]}
        \cup {[throws |-> FALSE, oob |-> o] : o \in OobOutcomes}

\* matchRepository->CreateBulk: throws and writes nothing, or writes every
\* match and returns one id per match, or one id fewer
BulkOutcomes ==
    {[throws |-> TRUE, missing |-> 0], [throws |-> FALSE, missing |-> 0],
     [throws |-> FALSE, missing |-> 1]}

\* matchRepository->MatchesExistForTournament(tournamentId, groupId)
MatchesExistForTournament(rows, tournamentId, groupId) ==
    rows[<<tournamentId, groupId>>] > 0

\* matchRepository->CreateBulk(matches) that does not throw: the store after
\* it, all-or-nothing
CreateBulk(rows, tournamentId, groupId, matches) ==
    [rows EXCEPT ![<<tournamentId, groupId>>] = @ + Len(matches)]

\* The messages MatchDelegate prints
GroupNotFound == "Group not found for tournament"

TeamCount == "Tournament has teams"

AlreadyExist == "Matches already exist for tournament"

Creating == "Creating matches for tournament"

SuccessCreated == "Successfully created 63 matches for tournament"

Waiting == "Waiting for more teams"

ErrorGenerated == "ERROR: Expected 63 matches, generated"

ErrorCreated == "ERROR: Expected to create 63 matches, created"

SuccessSaved == "Successfully saved 63 matches to database"

ErrorCreating == "ERROR creating matches"

\* The collaborator calls, as recorded in a handling's calls
FindGroup == "FindByTournamentIdAndGroupId"

MatchesExist == "MatchesExistForTournament"

Generation == "GenerateMatches"

BulkCreate == "CreateBulk"

\* A worker that has not received its notification.  pc is where the handling
\* of the notification stands: "idle", "lookedUp" (the group has all its teams,
\* the existence check is next), "checked" (no matches exist,
\* CreateTournamentMatches is next), and when it is over "returned", "raised"
\* (an exception left ProcessTeamAddition) or "aborted" (the process died).
\* calls are the collaborator calls made, in order; failed is the call that
\* threw; lookup and exists are what the collaborators returned; bulkArgs are
\* the arguments of the CreateBulk calls; persisted the rows the handling
\* wrote; reports the messages printed, in order.
IdleWorker ==
    [pc |-> "idle", tournamentId |-> "", groupId |-> "",
     calls |-> <<>>, failed |-> "", lookup |-> "", teams |-> 0, exists |-> "",
     bulkArgs |-> <<>>, persisted |-> 0, reports |-> <<>>]

\* HasAllTeams with >= for ==
HasAllTeams_AtLeast(teams) == teams >= RequiredTeams

\* group->Teams().size() == 32
HasAllTeams(teams) == teams = RequiredTeams

\* AfterLookup without the check for nullptr: a group that is not found is
\* taken for one without teams
AfterLookup_NoNullCheck(tournamentId, groupId, group) ==
    LET w == [IdleWorker EXCEPT !.tournamentId = tournamentId, !.groupId = groupId,
                                !.calls = <<FindGroup>>]
        lookup == IF group.found THEN "group" ELSE "nullptr"
    IN  IF group.throws
        THEN [w EXCEPT !.pc = "raised", !.failed = FindGroup]
        ELSE IF HasAllTeams(group.teams)
        THEN [w EXCEPT !.pc = "lookedUp", !.lookup = lookup, !.teams = group.teams,
                       !.reports = <<TeamCount>>]
        ELSE [w EXCEPT !.pc = "returned", !.lookup = lookup, !.teams = group.teams,
                       !.reports = <<TeamCount, Waiting>>]

\* ProcessTeamAddition from its start to the return of the group lookup and
\* the branches that need no further collaborator
AfterLookup(tournamentId, groupId, group) ==
    LET w == [IdleWorker EXCEPT !.tournamentId = tournamentId, !.groupId = groupId,
                                !.calls = <<FindGroup>>]
    IN  IF group.throws
        THEN [w EXCEPT !.pc = "raised", !.failed = FindGroup]
        ELSE IF ~group.found
        THEN [w EXCEPT !.pc = "returned", !.lookup = "nullptr",
                       !.reports = <<GroupNotFound>>]
        ELSE IF HasAllTeams(group.teams)
        THEN [w EXCEPT !.pc = "lookedUp", !.lookup = "group", !.teams = group.teams,
                       !.reports = <<TeamCount>>]
        ELSE [w EXCEPT !.pc = "returned", !.lookup = "group", !.teams = group.teams,
                       !.reports = <<TeamCount, Waiting>>]

\* AfterExistenceCheck without the early return when matches exist
AfterExistenceCheck_NoReturn(w, throws, exists) ==
    LET called == [w EXCEPT !.calls = Append(@, MatchesExist)]
    IN  IF throws
        THEN [called EXCEPT !.pc = "raised", !.failed = MatchesExist]
        ELSE [called EXCEPT !.pc = "checked", !.exists = IF exists THEN "true" ELSE "false",
                            !.reports = Append(@, Creating)]

\* ProcessTeamAddition from the call of MatchesExistForTournament to the call
\* of CreateTournamentMatches: w after the check threw or returned exists
AfterExistenceCheck(w, throws, exists) ==
    LET called == [w EXCEPT !.calls = Append(@, MatchesExist)]
    IN  IF throws
        THEN [called EXCEPT !.pc = "raised", !.failed = MatchesExist]
        ELSE IF exists
        THEN [called EXCEPT !.pc = "returned", !.exists = "true",
                            !.reports = Append(@, AlreadyExist)]
        ELSE [called EXCEPT !.pc = "checked", !.exists = "false",
                            !.reports = Append(@, Creating)]

\* CatchAndRethrow without the throw: the exception is logged and swallowed
CatchAndRethrow_Swallow(w, failed) ==
    [w EXCEPT !.failed = failed, !.reports = Append(@, ErrorCreating)]

\* catch (const std::exception& ex) { println; throw; } of
\* CreateTournamentMatches: w after the call named failed threw
CatchAndRethrow(w, failed) ==
    [w EXCEPT !.pc = "raised", !.failed = failed, !.reports = Append(@, ErrorCreating)]

\* SizeCheckFails with < for !=
SizeCheckFails_Below(matches) == Len(matches) < ExpectedMatches

\* SizeCheckFails with the check left out
SizeCheckFails_Never(matches) == FALSE

\* matches.size() != 63
SizeCheckFails(matches) == Len(matches) # ExpectedMatches

\* CreateTournamentMatches(tournamentId, groupId) called by w; pc = "checked"
\* in the result stands for a normal return to ProcessTeamAddition
CreateTournamentMatches(w, gen, bulk) ==
    LET generating == [w EXCEPT !.calls = Append(@, Generation)]
        result == GenerateMatches(w.tournamentId, w.groupId, gen.oob)
        matches == result.matches
        saving == [generating EXCEPT !.calls = Append(@, BulkCreate),
                                     !.bulkArgs = Append(@, matches)]
        createdIds == Len(matches) - bulk.missing
        saved == [saving EXCEPT !.persisted = Len(matches)]
    IN  IF gen.throws THEN CatchAndRethrow(generating, Generation)
        ELSE IF ~result.returned THEN [generating EXCEPT !.pc = "aborted"]
        ELSE IF SizeCheckFails(matches)
        THEN [generating EXCEPT !.reports = Append(@, ErrorGenerated)]
        ELSE IF bulk.throws THEN CatchAndRethrow(saving, BulkCreate)
        ELSE IF createdIds # ExpectedMatches
        THEN [saved EXCEPT !.reports = Append(@, ErrorCreated)]
        ELSE [saved EXCEPT !.reports = Append(@, SuccessSaved)]

\* ProcessTeamAddition from the call of CreateTournamentMatches to its end
AfterCreate(w, gen, bulk) ==
    LET created == CreateTournamentMatches(w, gen, bulk)
    IN  IF created.pc = "checked"
        THEN [created EXCEPT !.pc = "returned", !.reports = Append(@, SuccessCreated)]
        ELSE created

-----------------------------------------------------------------------------
(* The state machines.  Spec: a caller applies GenerateMatches to inputs of *)
(* its choice; calls records the calls made so far, oldest first.           *)
(* SpecWatcher: workers handle one notification each through MatchDelegate, *)
(* interleaved at the collaborator calls.                                   *)

Init ==
    /\ calls = <<>>
    /\ store = [k \in Keys |-> 0]
    /\ workers = [w \in Workers |-> IdleWorker]

\* One call of GenerateMatches(tournamentId, groupId)
Generate ==
    /\ Len(calls) < MaxCalls
    /\ \E tournamentId \in TournamentIds, groupId \in GroupIds, oob \in OobOutcomes :
        calls' = Append(calls,
                    [tournamentId |-> tournamentId, groupId |-> groupId,
                     result |-> GenerateMatches(tournamentId, groupId, oob)])
    /\ UNCHANGED <<store, workers>>

Next == Generate

Spec == Init /\ [][Next]_vars

\* Before the run the store holds, for each group, no match or a bracket
InitWatcher ==
    /\ calls = <<>>
    /\ store \in [Keys -> {0, PreExistingRows}]
    /\ workers = [w \in Workers |-> IdleWorker]

\* Worker w receives a TeamAddEvent and ProcessTeamAddition runs up to the
\* return of the group lookup
Lookup(w) ==
    /\ workers[w].pc = "idle"
    /\ \E k \in Keys, group \in LookupOutcomes :
        workers' = [workers EXCEPT ![w] = AfterLookup(k[1], k[2], group)]
    /\ UNCHANGED <<calls, store>>

\* ProcessTeamAddition of worker w calls MatchesExistForTournament
ExistenceCheck(w) ==
    /\ workers[w].pc = "lookedUp"
    /\ \E throws \in BOOLEAN :
        workers' = [workers EXCEPT ![w] =
            AfterExistenceCheck(@, throws,
                MatchesExistForTournament(store, @.tournamentId, @.groupId))]
    /\ UNCHANGED <<calls, store>>

\* ProcessTeamAddition of worker w calls CreateTournamentMatches and ends
Create(w) ==
    /\ workers[w].pc = "checked"
    /\ \E gen \in GenOutcomes, bulk \in BulkOutcomes :
        \E done \in {AfterCreate(workers[w], gen, bulk)} :
            /\ workers' = [workers EXCEPT ![w] = done]
            /\ store' = IF done.persisted > 0
                        THEN CreateBulk(store, done.tournamentId, done.groupId,
                                        done.bulkArgs[Len(done.bulkArgs)])
                        ELSE store
    /\ UNCHANGED calls

NextWatcher == \E w \in Workers : Lookup(w) \/ ExistenceCheck(w) \/ Create(w)

SpecWatcher == InitWatcher /\ [][NextWatcher]_vars

-----------------------------------------------------------------------------
(* Reading the output of the latest call *)

\* The latest call returned (the process did not abort in it)
HasOutput == calls # <<>> /\ calls[Len(calls)].result.returned

\* The sequence the latest call returned
Out == calls[Len(calls)].result.matches

\* Positions of the matches of Out with the given bracket, round and number
Sel(bracket, round, num) ==
    {i \in 1..Len(Out) : /\ Out[i].bracket = bracket
                         /\ Out[i].roundNumber = round
                         /\ Out[i].matchNumberInRound = num}

\* Positions of the two final-stage matches, and of the ordinary matches of
\* each bracket
GrandFinals == {i \in 1..Len(Out) : Out[i].isGrandFinal}

WinnersBracket == {i \in 1..Len(Out) : Out[i].bracket = WINNERS /\ ~Out[i].isGrandFinal}

LosersBracket == {i \in 1..Len(Out) : Out[i].bracket = LOSERS}

OutIds == {Out[i].id : i \in 1..Len(Out)}

\* There is a match (bracket, round, num), and the winner (resp. loser) edge
\* of every such match is the id of a match (bracket2, round2, num2)
WinnerGoesTo(bracket, round, num, bracket2, round2, num2) ==
    /\ Sel(bracket, round, num) # {}
    /\ \A a \in Sel(bracket, round, num) : \E b \in Sel(bracket2, round2, num2) :
            Out[a].nextMatchWinnerId = Out[b].id

LoserGoesTo(bracket, round, num, bracket2, round2, num2) ==
    /\ Sel(bracket, round, num) # {}
    /\ \A a \in Sel(bracket, round, num) : \E b \in Sel(bracket2, round2, num2) :
            Out[a].nextMatchLoserId = Out[b].id

-----------------------------------------------------------------------------
(* Claims *)

\* C1: every call that returns, returns exactly 63 matches: 31 winners-bracket
\* matches in rounds 1-5, 30 losers-bracket matches in rounds 1-9 and 2
\* grand-final matches.
C1_SixtyThreeMatches ==
    HasOutput =>
        /\ Len(Out) = 63
        /\ Cardinality({i \in WinnersBracket : Out[i].roundNumber \in 1..5}) = 31
        /\ Cardinality({i \in LosersBracket : Out[i].roundNumber \in 1..9}) = 30
        /\ Cardinality(GrandFinals) = 2

\* C2: in the output of one call every match has a non-empty id and no two
\* matches share an id.
C2_IdsNonEmptyAndUnique ==
    HasOutput =>
        /\ \A i \in 1..Len(Out) : Out[i].id # ""
        /\ \A i, j \in 1..Len(Out) : i # j => Out[i].id # Out[j].id

C2_Witness ==
    /\ HasOutput
    /\ \E i, j \in 1..Len(Out) :
        /\ Out[i].bracket = WINNERS /\ Out[j].bracket = LOSERS
        /\ Out[i].roundNumber = Out[j].roundNumber
        /\ Out[i].matchNumberInRound = Out[j].matchNumberInRound

\* C3: the loser of winners round 1 match i (i in 0..15) goes to losers round 1
\* match i/2, and the loser of winners round 2 match i (i in 0..7) goes to
\* losers round 2 match i.
C3_LoserPathsRounds1And2 ==
    HasOutput =>
        /\ \A i \in 0..15 : LoserGoesTo(WINNERS, 1, i, LOSERS, 1, i \div 2)
        /\ \A i \in 0..7 : LoserGoesTo(WINNERS, 2, i, LOSERS, 2, i)

C3_Witness ==
    /\ HasOutput
    /\ \E a \in Sel(WINNERS, 1, 15), b \in Sel(LOSERS, 1, 7) :
        Out[a].nextMatchLoserId = Out[b].id /\ Out[b].id # ""
    /\ \E a \in Sel(WINNERS, 2, 7), b \in Sel(LOSERS, 2, 7) :
        Out[a].nextMatchLoserId = Out[b].id /\ Out[b].id # ""

\* C4: the loser of winners round 3 match i (i in 0..3) goes to losers round 4
\* match i, and the loser of winners round 4 match i (i in 0..1) goes to losers
\* round 6 match i.
C4_LoserPathsRounds3And4 ==
    HasOutput =>
        /\ \A i \in 0..3 : LoserGoesTo(WINNERS, 3, i, LOSERS, 4, i)
        /\ \A i \in 0..1 : LoserGoesTo(WINNERS, 4, i, LOSERS, 6, i)

\* C5: the loser of the winners final (winners round 5 match 0) goes to losers
\* round 8 match 0.
C5_WinnersFinalLoserPath ==
    HasOutput => LoserGoesTo(WINNERS, 5, 0, LOSERS, 8, 0)

\* C6: the winner of winners round 5 match 0 and the winner of losers round 9
\* match 0 both go to the first grand-final match, winners round 6 match 0.
C6_FinalsFeedGrandFinal ==
    HasOutput =>
        /\ WinnerGoesTo(WINNERS, 5, 0, WINNERS, 6, 0)
        /\ WinnerGoesTo(LOSERS, 9, 0, WINNERS, 6, 0)

\* C7: every winners-bracket match of rounds 1-5 has a non-empty
\* nextMatchLoserId that is the id of a losers-bracket match of the output, and
\* every losers-bracket match and both grand-final matches have an empty one.
C7_LoserEdges ==
    HasOutput =>
        /\ \A i \in WinnersBracket :
            /\ Out[i].nextMatchLoserId # ""
            /\ \E j \in LosersBracket : Out[i].nextMatchLoserId = Out[j].id
        /\ \A i \in LosersBracket \cup GrandFinals : Out[i].nextMatchLoserId = ""

\* C8: every match other than the two grand-final matches and losers round 9
\* match 0 has a non-empty nextMatchWinnerId that is the id of a match of the
\* same output.
C8_NoDanglingWinnerEdge ==
    HasOutput =>
        \A i \in (1..Len(Out)) \ (GrandFinals \cup Sel(LOSERS, 9, 0)) :
            /\ Out[i].nextMatchWinnerId # ""
            /\ Out[i].nextMatchWinnerId \in OutIds

C8_Witness ==
    /\ HasOutput
    /\ WinnerGoesTo(LOSERS, 8, 0, LOSERS, 9, 0)
    /\ WinnerGoesTo(WINNERS, 4, 1, WINNERS, 5, 0)
    /\ \A i \in Sel(LOSERS, 8, 0) \cup Sel(WINNERS, 4, 1) : Out[i].nextMatchWinnerId # ""

\* C9: the only match with an empty nextMatchWinnerId is the bracket-reset
\* match (winners round 7); every other match, losers round 9 match 0 and the
\* first grand-final match included, has a non-empty nextMatchWinnerId that is
\* the id of a match of the output.
C9_OnlyResetIsTerminal ==
    HasOutput =>
        \A i \in 1..Len(Out) :
            IF Out[i].bracket = WINNERS /\ Out[i].roundNumber = 7
            THEN Out[i].nextMatchWinnerId = ""
            ELSE Out[i].nextMatchWinnerId # "" /\ Out[i].nextMatchWinnerId \in OutIds

\* C10: every output holds exactly two grand-final matches: one winners round 6
\* match with isGrandFinal and not isBracketReset, one winners round 7 match
\* with isGrandFinal and isBracketReset, and the winner of the round 6 match
\* goes to the round 7 match.
C10_TwoGrandFinalMatches ==
    HasOutput =>
        /\ Cardinality(GrandFinals) = 2
        /\ \E g1, g2 \in GrandFinals :
            /\ Out[g1].bracket = WINNERS /\ Out[g1].roundNumber = 6
            /\ ~Out[g1].isBracketReset
            /\ Out[g2].bracket = WINNERS /\ Out[g2].roundNumber = 7
            /\ Out[g2].isBracketReset
            /\ Out[g1].nextMatchWinnerId = Out[g2].id
            /\ Out[g2].id # ""
        /\ \A i \in 1..Len(Out) : Out[i].roundNumber \in {6, 7} /\ Out[i].bracket = WINNERS
                                    => i \in GrandFinals

C10_Witness ==
    /\ HasOutput
    /\ \E i \in GrandFinals : Out[i].isBracketReset
    /\ \E i \in GrandFinals : ~Out[i].isBracketReset

\* C11: the id of every generated match is tournamentId, "_", "W" for a
\* WINNERS match (both grand-final matches included) or "L" for a LOSERS match,
\* "R", the match's roundNumber, "M", the match's matchNumberInRound.
C11_IdScheme ==
    HasOutput =>
        \A i \in 1..Len(Out) :
            Out[i].id = Out[i].tournamentId \o "_"
                            \o (IF Out[i].bracket = WINNERS THEN "W" ELSE "L")
                            \o "R" \o to_string(Out[i].roundNumber)
                            \o "M" \o to_string(Out[i].matchNumberInRound)

C11_Witness ==
    /\ HasOutput
    /\ \E i \in WinnersBracket : Out[i].id = "T1_WR1M15"
    /\ \E i \in LosersBracket : Out[i].id = "T1_LR2M7"
    /\ \E i \in GrandFinals : Out[i].id = "T1_WR7M0"

\* C12: any two calls with the same (tournamentId, groupId), whatever calls lie
\* between them, have the same outcome and return the same sequence of matches.
C12_Deterministic ==
    \A i, j \in 1..Len(calls) :
        calls[i].tournamentId = calls[j].tournamentId /\ calls[i].groupId = calls[j].groupId
            => calls[i].result = calls[j].result

\* C13: the brackets generated for two distinct groups of the same tournament
\* have no id in common.
C13_IdsUniqueAcrossGroups ==
    \A i, j \in 1..Len(calls) :
        /\ calls[i].tournamentId = calls[j].tournamentId
        /\ calls[i].groupId # calls[j].groupId
        => LET a == calls[i].result.matches
               b == calls[j].result.matches
           IN  {a[k].id : k \in 1..Len(a)} \cap {b[k].id : k \in 1..Len(b)} = {}

-----------------------------------------------------------------------------
(* Claims about MatchDelegate, under SpecWatcher *)

\* Whether x occurs in the sequence sq, and how often
InSeq(x, sq) == \E i \in 1..Len(sq) : sq[i] = x

Count(x, sq) == Cardinality({i \in 1..Len(sq) : sq[i] = x})

\* C14: a handling that found the group with exactly 32 teams and no existing
\* matches, and returned, called CreateBulk exactly once, with 63 matches, and
\* reported success.
C14_PersistsSixtyThreeOnce ==
    \A w \in Workers :
        /\ workers[w].pc = "returned"
        /\ workers[w].lookup = "group" /\ workers[w].teams = 32
        /\ workers[w].exists = "false"
        => /\ Len(workers[w].bulkArgs) = 1
           /\ Len(workers[w].bulkArgs[1]) = 63
           /\ InSeq(SuccessCreated, workers[w].reports)

\* C15: a handling that found the group with a team count other than 32 is
\* over after the lookup: it returned without error, made no existence check,
\* no generation and no CreateBulk call, wrote nothing to the store and
\* reported that it is waiting.
C15_WaitingIsNoOp ==
    \A w \in Workers :
        workers[w].lookup = "group" /\ workers[w].teams # 32
        => /\ workers[w].pc = "returned"
           /\ workers[w].failed = ""
           /\ workers[w].calls = <<FindGroup>>
           /\ workers[w].bulkArgs = <<>>
           /\ workers[w].persisted = 0
           /\ workers[w].reports = <<TeamCount, Waiting>>

C15_Witness ==
    \E v, w \in Workers :
        /\ workers[v].lookup = "group" /\ workers[v].teams = 31 /\ workers[v].pc = "returned"
        /\ workers[w].lookup = "group" /\ workers[w].teams = 33 /\ workers[w].pc = "returned"

\* C16: every step that a handling takes, from its start or at its existence
\* check, in a state where matches exist for its group leaves the store
\* unchanged and does not lead to CreateTournamentMatches: the handling makes
\* no generation and no CreateBulk call.
C16_ReplayIsNoOp ==
    [][\A w \in Workers :
        /\ workers'[w] # workers[w]
        /\ workers[w].pc \in {"idle", "lookedUp"}
        /\ store[<<workers'[w].tournamentId, workers'[w].groupId>>] > 0
        => /\ workers'[w].pc \in {"lookedUp", "returned", "raised"}
           /\ ~InSeq(Generation, workers'[w].calls)
           /\ ~InSeq(BulkCreate, workers'[w].calls)
           /\ workers'[w].bulkArgs = <<>>
           /\ store' = store]_vars

C16_Witness ==
    \E w \in Workers :
        /\ workers[w].pc = "returned"
        /\ workers[w].teams = 32
        /\ workers[w].exists = "true"
        /\ store[<<workers[w].tournamentId, workers[w].groupId>>] > 0
        /\ workers[w].reports = <<TeamCount, AlreadyExist>>

\* C17: a handling whose group lookup returned not-found reported "not found",
\* returned without raising and made no call to the match store.
C17_NotFoundReturns ==
    \A w \in Workers :
        workers[w].lookup = "nullptr"
        => /\ workers[w].pc = "returned"
           /\ workers[w].failed = ""
           /\ workers[w].reports = <<GroupNotFound>>
           /\ workers[w].calls = <<FindGroup>>
           /\ workers[w].bulkArgs = <<>>

C17_Witness ==
    \E w \in Workers : workers[w].lookup = "nullptr" /\ workers[w].pc = "returned"

C20_FailuresPropagate ==
    \A w \in Workers :
        /\ \A c \in {FindGroup, MatchesExist, Generation, BulkCreate} :
                Count(c, workers[w].calls) <= 1
        /\ workers[w].failed # ""
            => /\ workers[w].pc = "raised"
               /\ workers[w].calls # <<>>
               /\ workers[w].calls[Len(workers[w].calls)] = workers[w].failed
               /\ ~InSeq(SuccessCreated, workers[w].reports)
               /\ ~InSeq(SuccessSaved, workers[w].reports)

C20_Witness ==
    \E v, w \in Workers :
        /\ workers[v].pc = "raised" /\ workers[v].failed = Generation
        /\ InSeq(ErrorCreating, workers[v].reports)
        /\ workers[w].pc = "raised" /\ workers[w].failed \in {FindGroup, MatchesExist}

-----------------------------------------------------------------------------
(* Claims about the shape of the generated bracket, under Spec *)

\* C22: the winner of every winners match of round r < 5 and every losers
\* match of round r < 9, with number m, goes to the match m / 2 of round r + 1
\* of the same bracket, and that match is in the output.
C22_WinnerAdvancesByHalving ==
    HasOutput =>
        \A i \in WinnersBracket \cup LosersBracket :
            Out[i].roundNumber < (IF Out[i].bracket = WINNERS THEN 5 ELSE 9)
            => \E j \in Sel(Out[i].bracket, Out[i].roundNumber + 1,
                            Out[i].matchNumberInRound \div 2) :
                    Out[i].nextMatchWinnerId = Out[j].id /\ Out[j].id # ""

C22_Witness ==
    /\ HasOutput
    /\ \E i \in Sel(WINNERS, 1, 15), j \in Sel(WINNERS, 2, 7) :
            Out[i].nextMatchWinnerId = Out[j].id
    /\ \E i \in Sel(LOSERS, 2, 7), j \in Sel(LOSERS, 3, 3) :
            Out[i].nextMatchWinnerId = Out[j].id
    /\ \E i \in Sel(LOSERS, 8, 0), j \in Sel(LOSERS, 9, 0) :
            Out[i].nextMatchWinnerId = Out[j].id

\* C23: each winners round r in 1..5 holds the match numbers 0..size-1 once
\* each, sizes 16, 8, 4, 2, 1; each losers round r in 1..9 likewise, sizes
\* 8, 8, 4, 4, 2, 2, 1, 1, 1; and the only other matches are the grand-final
\* matches, winners rounds 6 and 7.
C23_RoundSizes ==
    HasOutput =>
        LET wSizes == <<16, 8, 4, 2, 1>>
            lSizes == <<8, 8, 4, 4, 2, 2, 1, 1, 1>>
        IN  /\ \A r \in 1..5 : \A m \in 0..(wSizes[r] - 1) :
                    Cardinality(Sel(WINNERS, r, m)) = 1
            /\ \A r \in 1..9 : \A m \in 0..(lSizes[r] - 1) :
                    Cardinality(Sel(LOSERS, r, m)) = 1
            /\ \A i \in WinnersBracket :
                    /\ Out[i].roundNumber \in 1..5
                    /\ Out[i].matchNumberInRound \in 0..(wSizes[Out[i].roundNumber] - 1)
            /\ \A i \in LosersBracket :
                    /\ Out[i].roundNumber \in 1..9
                    /\ Out[i].matchNumberInRound \in 0..(lSizes[Out[i].roundNumber] - 1)
            /\ \A i \in GrandFinals :
                    Out[i].bracket = WINNERS /\ Out[i].roundNumber \in {6, 7}

C23_Witness ==
    /\ HasOutput
    /\ Sel(WINNERS, 1, 15) # {} /\ Sel(WINNERS, 5, 0) # {}
    /\ Sel(LOSERS, 2, 7) # {} /\ Sel(LOSERS, 9, 0) # {}

\* Position of a match in the claimed order: winners bracket, losers bracket,
\* grand final; within each by round, then by number
OrderKey(m) ==
    (IF m.isGrandFinal THEN 2 ELSE IF m.bracket = WINNERS THEN 0 ELSE 1) * 10000
        + m.roundNumber * 100 + m.matchNumberInRound

\* C24: the output lists the winners matches by round and number, then the
\* losers matches by round and number, then the grand final (round 6) and the
\* bracket reset (round 7), which are its last two elements.
C24_OutputOrder ==
    HasOutput =>
        /\ \A i, j \in 1..Len(Out) : i < j => OrderKey(Out[i]) < OrderKey(Out[j])
        /\ Len(Out) >= 2
        /\ LET g1 == Out[Len(Out) - 1]
               g2 == Out[Len(Out)]
           IN  /\ g1.isGrandFinal /\ ~g1.isBracketReset /\ g1.roundNumber = 6
               /\ g2.isGrandFinal /\ g2.isBracketReset /\ g2.roundNumber = 7

C24_Witness ==
    /\ HasOutput
    /\ Out[1].bracket = WINNERS /\ Out[1].roundNumber = 1 /\ Out[1].matchNumberInRound = 0
    /\ Out[32].bracket = LOSERS /\ Out[32].roundNumber = 1 /\ Out[32].matchNumberInRound = 0
    /\ Out[Len(Out)].isBracketReset

\* C26: in every call, every index with which LinkBracketsLoserPaths and
\* GenerateMatches read or write winnersMatches and losersMatches lies within
\* the vector that CreateWinnersBracket, resp. CreateLosersBracket, built.
C26_IndicesInBounds ==
    \A c \in 1..Len(calls) :
        LET winnersMatches == CreateWinnersBracket(calls[c].tournamentId, calls[c].groupId)
            losersMatches == CreateLosersBracket(calls[c].tournamentId, calls[c].groupId)
        IN  /\ ~LinkOutOfBounds(winnersMatches, losersMatches)
            /\ InBounds(winnersMatches, WinnersFinalIndex)
            /\ InBounds(losersMatches, LosersFinalIndex)

\* The matches of the output whose winner, resp. loser, goes to match j
WinnerEdgesTo(j) == {i \in 1..Len(Out) : Out[i].nextMatchWinnerId = Out[j].id}

LoserEdgesTo(j) == {i \in 1..Len(Out) : Out[i].nextMatchLoserId = Out[j].id}

\* C27: every match of the output is the target of at most two advancement
\* edges, nextMatchWinnerId and nextMatchLoserId edges counted together.
C27_AtMostTwoIncomingEdges ==
    HasOutput =>
        \A j \in 1..Len(Out) :
            Cardinality(WinnerEdgesTo(j)) + Cardinality(LoserEdgesTo(j)) <= 2

\* C28: every match of the output other than the winners round 1 matches is
\* the target of an advancement edge of another match.
C28_EveryMatchReachable ==
    HasOutput =>
        \A j \in 1..Len(Out) :
            ~(Out[j].bracket = WINNERS /\ Out[j].roundNumber = 1)
            => (WinnerEdgesTo(j) \cup LoserEdgesTo(j)) \ {j} # {}

RECURSIVE ReachesReset(_, _)
\* Following nextMatchWinnerId from match i arrives at the bracket-reset match
\* within the given number of steps
ReachesReset(i, steps) ==
    IF Out[i].bracket = WINNERS /\ Out[i].roundNumber = 7 /\ Out[i].isBracketReset
    THEN TRUE
    ELSE IF steps = 0 THEN FALSE
    ELSE \E j \in 1..Len(Out) :
            /\ Out[j].id = Out[i].nextMatchWinnerId
            /\ ReachesReset(j, steps - 1)

\* C29: following nextMatchWinnerId from any match of the output ends at the
\* bracket-reset match (winners round 7) within as many steps as there are
\* matches, so without visiting a match twice.
C29_WinnerPathsEndAtReset ==
    HasOutput => \A i \in 1..Len(Out) : ReachesReset(i, Len(Out))

-----------------------------------------------------------------------------
(* Further claims about MatchDelegate, under SpecWatcher *)

\* C21: every step of every handling leaves the rows of each (tournamentId,
\* groupId) as they were or takes them from none to the complete bracket of 63
\* matches, and a handling writes either nothing or 63 rows: a group that had
\* no matches or a complete bracket never comes to hold a partial one.
C21_NoPartialBracket ==
    [][/\ \A k \in Keys :
            \/ store'[k] = store[k]
            \/ store[k] = 0 /\ store'[k] = 63
       /\ \A w \in Workers : workers'[w].persisted \in {0, 63}]_vars

\* One handling ran CreateTournamentMatches and ended in an error, another
\* ended without work to do, and the group of the first holds no matches
C21_Witness ==
    \E v, w \in Workers :
        /\ v # w
        /\ InSeq(Generation, workers[v].calls)
        /\ workers[v].pc \in {"returned", "raised"}
        /\ store[<<workers[v].tournamentId, workers[v].groupId>>] = 0
        /\ workers[w].pc = "returned"
        /\ workers[w].calls = <<FindGroup>>

\* C25: every CreateBulk call of a handling carries 63 matches, and a handling
\* that reported a generated count other than 63 made no CreateBulk call and
\* wrote nothing.
C25_BulkCarriesSixtyThree ==
    \A w \in Workers :
        /\ Count(BulkCreate, workers[w].calls) = Len(workers[w].bulkArgs)
        /\ \A i \in 1..Len(workers[w].bulkArgs) : Len(workers[w].bulkArgs[i]) = 63
        /\ InSeq(ErrorGenerated, workers[w].reports)
           => /\ ~InSeq(BulkCreate, workers[w].calls)
              /\ workers[w].bulkArgs = <<>>
              /\ workers[w].persisted = 0

\* The generator returned a count other than 63 and the handling stopped
\* before persistence
C25_Witness ==
    \E w \in Workers :
        /\ workers[w].calls = <<FindGroup, MatchesExist, Generation>>
        /\ InSeq(ErrorGenerated, workers[w].reports)
        /\ workers[w].pc = "returned"
        /\ workers[w].persisted = 0

\* sq is a prefix of of
IsPrefix(sq, of) == Len(sq) <= Len(of) /\ \A i \in 1..Len(sq) : sq[i] = of[i]

\* C30: the collaborator calls of a handling are, in this order and each at
\* most once, the group lookup, the existence check, the generation and
\* CreateBulk; the existence check is made only when the lookup returned a
\* group with exactly 32 teams, and generation and CreateBulk only when the
\* existence check returned false.
C30_CallOrder ==
    \A w \in Workers :
        /\ IsPrefix(workers[w].calls, <<FindGroup, MatchesExist, Generation, BulkCreate>>)
        /\ InSeq(MatchesExist, workers[w].calls)
           => workers[w].lookup = "group" /\ workers[w].teams = 32
        /\ InSeq(Generation, workers[w].calls) \/ InSeq(BulkCreate, workers[w].calls)
           => workers[w].exists = "false"

\* A handling went through lookup, existence check and generation while
\* another stopped after the lookup of a group that lacks teams
C30_Witness ==
    \E v, w \in Workers :
        /\ workers[v].calls = <<FindGroup, MatchesExist, Generation>>
        /\ workers[v].lookup = "group" /\ workers[v].teams = 32
        /\ workers[v].exists = "false"
        /\ workers[w].calls = <<FindGroup>>
        /\ workers[w].lookup = "group" /\ workers[w].teams # 32

====
